---- MODULE Spec2Model ----
(***************************************************************************)
(* A model of scripts/doc_parity.py: the path normalizer (segmentize), the *)
(* endpoint matcher (endpoints_match), the two extractors and the coverage *)
(* aggregation and report of main.                                         *)
(*                                                                         *)
(* A Python str is a sequence of one-character strings, so that split,     *)
(* strip, replace, startswith and isdigit are computed on characters.      *)
(***************************************************************************)
EXTENDS Integers, Sequences, FiniteSets, TLC

VARIABLES
    \* SpecSeg: one call of segmentize and a second call on its joined result
    path, wildcard_vars, wildcard_numbers, segments, resegments,
    \* the position of the run each specification describes
    phase,
    \* SpecMatch: one call of endpoints_match
    doc_endpoint, basecamp_endpoint, match_result,
    \* SpecExtract: the scan of the client scripts by load_basecamp_endpoints
    commands, scanned, assignments, endpoints,
    \* SpecMain: the file system main reads, its locals, and what it returns
    sections_exists, md_files, show_missing,
    doc_sections, skipped_sections, basecamp_endpoints, unique_docs,
    section_stats, section_missing, matched, total, full, partial, zero,
    stdout, stderr, rc, calls,
    \* the results of the run before this one
    prev

vars == <<path, wildcard_vars, wildcard_numbers, segments, resegments, phase,
          doc_endpoint, basecamp_endpoint, match_result,
          commands, scanned, assignments, endpoints,
          sections_exists, md_files, show_missing,
          doc_sections, skipped_sections, basecamp_endpoints, unique_docs,
          section_stats, section_missing, matched, total, full, partial, zero,
          stdout, stderr, rc, calls, prev>>

segVars == <<path, wildcard_vars, wildcard_numbers, segments, resegments>>
matchVars == <<doc_endpoint, basecamp_endpoint, match_result>>
extractVars == <<commands, scanned, assignments, endpoints>>
fsVars == <<sections_exists, md_files>>
localVars == <<doc_sections, skipped_sections, basecamp_endpoints, unique_docs,
               section_stats, section_missing, matched, total, full, partial, zero>>
outVars == <<stdout, stderr, rc>>
mainVars == <<fsVars, show_missing, localVars, outVars, calls, prev>>

(***************************************************************************)
(* Bounds of the inputs.                                                   *)
(***************************************************************************)
\* tokens concatenated into an input path of segmentize
MaxToks == 3
\* segments of a path handed to endpoints_match
MaxSegs == 2
\* lines of all the client scripts together, and the scripts they are cut into
MaxLines == 3
MaxUnits == 2
\* endpoint mentions in all the documentation files together
MaxMentions == 3

(***************************************************************************)
(* Python str operations, on sequences of characters.                      *)
(***************************************************************************)
Digits == {"0", "1", "2", "3", "4", "5", "6", "7", "8", "9"}

\* s.startswith(prefix)
StartsWith(s, prefix) ==
    /\ Len(s) >= Len(prefix)
    /\ SubSeq(s, 1, Len(prefix)) = prefix

\* c in s, for a single character c
Contains(s, c) == \E i \in 1..Len(s) : s[i] = c

\* s.isdigit(): at least one character and every character a digit
IsDigit(s) == Len(s) > 0 /\ \A i \in 1..Len(s) : s[i] \in Digits

\* s.replace(sub, ""): the non-overlapping occurrences of sub, left to right
RECURSIVE Remove(_, _)
Remove(s, sub) ==
    IF Len(s) < Len(sub) THEN s
    ELSE IF SubSeq(s, 1, Len(sub)) = sub
         THEN Remove(SubSeq(s, Len(sub) + 1, Len(s)), sub)
         ELSE <<Head(s)>> \o Remove(Tail(s), sub)

\* s.split(c, 1)[0]: the part of s before the first c
RECURSIVE BeforeFirst(_, _)
BeforeFirst(s, c) ==
    IF s = <<>> \/ Head(s) = c THEN <<>>
    ELSE <<Head(s)>> \o BeforeFirst(Tail(s), c)

\* s.lstrip(chars), s.rstrip(chars), s.strip(chars)
RECURSIVE LStrip(_, _)
LStrip(s, chars) ==
    IF s # <<>> /\ Head(s) \in chars THEN LStrip(Tail(s), chars) ELSE s

RECURSIVE RStrip(_, _)
RStrip(s, chars) ==
    IF s # <<>> /\ s[Len(s)] \in chars
    THEN RStrip(SubSeq(s, 1, Len(s) - 1), chars)
    ELSE s

Strip(s, chars) == RStrip(LStrip(s, chars), chars)

\* s.split(c): the pieces between the occurrences of c, empty pieces kept
RECURSIVE SplitFrom(_, _, _)
SplitFrom(s, c, cur) ==
    IF s = <<>> THEN <<cur>>
    ELSE IF Head(s) = c
         THEN <<cur>> \o SplitFrom(Tail(s), c, <<>>)
         ELSE SplitFrom(Tail(s), c, Append(cur, Head(s)))

Split(s, c) == SplitFrom(s, c, <<>>)

\* c.join(parts)
RECURSIVE Join(_, _)
Join(parts, c) ==
    IF parts = <<>> THEN <<>>
    ELSE IF Len(parts) = 1 THEN Head(parts)
         ELSE Head(parts) \o <<c>> \o Join(Tail(parts), c)

\* the concatenation of a sequence of strings
RECURSIVE Concat(_)
Concat(parts) ==
    IF parts = <<>> THEN <<>> ELSE Head(parts) \o Concat(Tail(parts))

(***************************************************************************)
(* segmentize                                                              *)
(***************************************************************************)
FormatToken == <<"(", ".", ":", "f", "o", "r", "m", "a", "t", ")">>
DotJson == <<".", "j", "s", "o", "n">>
Star == <<"*">>

\* the wildcard test of one segment
is_wildcard(segment, wv, wn) ==
    \/ wv /\ ( \/ Contains(segment, "$")
               \/ StartsWith(segment, <<":">>)
               \/ StartsWith(segment, <<"{">>) )
    \/ wn /\ IsDigit(segment)
    \/ Contains(segment, ":")

\* the loop over path.strip("/").split("/")
RECURSIVE SegmentLoop(_, _, _)
SegmentLoop(parts, wv, wn) ==
    IF parts = <<>> THEN <<>>
    ELSE IF Head(parts) = <<>> THEN SegmentLoop(Tail(parts), wv, wn)
         ELSE LET segment == Remove(Head(parts), DotJson)
              IN  <<IF is_wildcard(segment, wv, wn) THEN Star ELSE segment>>
                  \o SegmentLoop(Tail(parts), wv, wn)

segmentize(p, wv, wn) ==
    LET p1 == BeforeFirst(p, "?")
        p2 == Remove(p1, FormatToken)
        p3 == Remove(Remove(p2, <<"(">>), <<")">>)
    IN  SegmentLoop(Split(Strip(p3, {"/"}), "/"), wv, wn)

(***************************************************************************)
(* endpoints_match                                                         *)
(***************************************************************************)
\* ZipLoop with the wildcard honoured on the documented side only
RECURSIVE ZipLoop_DocWildcardOnly(_, _)
ZipLoop_DocWildcardOnly(doc_segs, basecamp_segs) ==
    IF doc_segs = <<>> \/ basecamp_segs = <<>> THEN TRUE
    ELSE IF Head(doc_segs) = Star
         THEN ZipLoop_DocWildcardOnly(Tail(doc_segs), Tail(basecamp_segs))
         ELSE IF Head(doc_segs) # Head(basecamp_segs) THEN FALSE
              ELSE ZipLoop_DocWildcardOnly(Tail(doc_segs), Tail(basecamp_segs))

\* the loop over zip(doc_segs, basecamp_segs)
RECURSIVE ZipLoop(_, _)
ZipLoop(doc_segs, basecamp_segs) ==
    IF doc_segs = <<>> \/ basecamp_segs = <<>> THEN TRUE
    ELSE IF Head(doc_segs) = Star \/ Head(basecamp_segs) = Star
         THEN ZipLoop(Tail(doc_segs), Tail(basecamp_segs))
         ELSE IF Head(doc_segs) # Head(basecamp_segs) THEN FALSE
              ELSE ZipLoop(Tail(doc_segs), Tail(basecamp_segs))

\* the two normalizations of endpoints_match
doc_segs_of(doc_path) == segmentize(doc_path, TRUE, TRUE)
\* basecamp_segs_of with numeric segments wildcarded on the client side too
basecamp_segs_of_NumericWildcard(basecamp_path) == segmentize(basecamp_path, TRUE, TRUE)
basecamp_segs_of(basecamp_path) == segmentize(basecamp_path, TRUE, FALSE)

\* an endpoint is <<method, path>>
endpoints_match(doc_ep, basecamp_ep) ==
    IF doc_ep[1] # basecamp_ep[1] THEN FALSE
    ELSE LET doc_segs == doc_segs_of(doc_ep[2])
             basecamp_segs == basecamp_segs_of(basecamp_ep[2])
         IN  IF Len(doc_segs) # Len(basecamp_segs) THEN FALSE
             ELSE ZipLoop(doc_segs, basecamp_segs)

(***************************************************************************)
(* SpecSeg: segmentize on every path made of at most MaxToks tokens, under *)
(* every setting of the two flags, then once more on its joined result.    *)
(***************************************************************************)
PathToks ==
    { <<"/">>, <<"a">>, <<"7">>, <<":">>, <<"$">>, <<"{">>, <<"?">>, <<"(">>,
      <<")">>, DotJson, FormatToken, <<".", "j", "s">>, <<"o", "n">> }

SeqsUpTo(S, n) == UNION { [1..k -> S] : k \in 0..n }

InputPaths == { Concat(ts) : ts \in SeqsUpTo(PathToks, MaxToks) }

None == <<"none">>

MatchIdle ==
    /\ doc_endpoint = None
    /\ basecamp_endpoint = None
    /\ match_result = FALSE

ExtractIdle ==
    /\ commands = <<>>
    /\ scanned = {}
    /\ assignments = <<>>
    /\ endpoints = {}

NoResults ==
    [valid |-> FALSE, matched |-> 0, total |-> 0,
     section_stats |-> <<>>, section_missing |-> <<>>]

LocalsUnset ==
    /\ doc_sections = <<>>
    /\ skipped_sections = <<>>
    /\ basecamp_endpoints = {}
    /\ unique_docs = <<>>
    /\ section_stats = <<>>
    /\ section_missing = <<>>
    /\ matched = 0
    /\ total = 0
    /\ full = <<>>
    /\ partial = <<>>
    /\ zero = <<>>

\* rc is -1 until main returns
OutputUnset ==
    /\ stdout = <<>>
    /\ stderr = <<>>
    /\ rc = -1
    /\ calls = {}

MainIdle ==
    /\ sections_exists = FALSE
    /\ md_files = <<>>
    /\ show_missing = FALSE
    /\ LocalsUnset
    /\ OutputUnset
    /\ prev = NoResults

InitSeg ==
    /\ path \in InputPaths
    /\ wildcard_vars \in BOOLEAN
    /\ wildcard_numbers \in BOOLEAN
    /\ segments = None
    /\ resegments = None
    /\ phase = "input"
    /\ MatchIdle
    /\ ExtractIdle
    /\ MainIdle

Normalize ==
    /\ phase = "input"
    /\ segments' = segmentize(path, wildcard_vars, wildcard_numbers)
    /\ phase' = "once"
    /\ UNCHANGED <<path, wildcard_vars, wildcard_numbers, resegments>>
    /\ UNCHANGED matchVars
    /\ UNCHANGED extractVars
    /\ UNCHANGED mainVars

Renormalize ==
    /\ phase = "once"
    /\ resegments' = segmentize(Join(segments, "/"), wildcard_vars, wildcard_numbers)
    /\ phase' = "twice"
    /\ UNCHANGED <<path, wildcard_vars, wildcard_numbers, segments>>
    /\ UNCHANGED matchVars
    /\ UNCHANGED extractVars
    /\ UNCHANGED mainVars

NextSeg == Normalize \/ Renormalize

SpecSeg == InitSeg /\ [][NextSeg]_vars

(***************************************************************************)
(* C10: segmentize returns no empty segment.  Violated: a segment that is  *)
(* only ".json" passes the emptiness test before the suffix is removed.    *)
(***************************************************************************)
\* C10: every element of the sequence segmentize returns is non-empty
C10_NoEmptySegment ==
    phase # "input" => \A i \in 1..Len(segments) : segments[i] # <<>>

(***************************************************************************)
(* C9: normalizing the joined result of segmentize gives the same sequence.*)
(***************************************************************************)
\* C9: segmentize of the "/"-joined segments of segmentize(p) equals segmentize(p)
C9_Idempotent ==
    phase = "twice" => resegments = segments

(***************************************************************************)
(* SpecMatch: endpoints_match on every pair of a documented and a client   *)
(* endpoint whose paths have at most MaxSegs segments of MatchSegPool.     *)
(***************************************************************************)
Methods == {"GET", "POST"}

MatchSegPool ==
    { <<"a">>, <<"x">>, <<"7">>, <<":", "i", "d">>, <<"$", "v">>,
      <<"a">> \o DotJson }

PathOf(segs) == <<"/">> \o Join(segs, "/")

MatchPaths == { PathOf(segs) : segs \in SeqsUpTo(MatchSegPool, MaxSegs) }

SegIdle ==
    /\ path = None
    /\ wildcard_vars = FALSE
    /\ wildcard_numbers = FALSE
    /\ segments = None
    /\ resegments = None

InitMatch ==
    /\ doc_endpoint \in Methods \X MatchPaths
    /\ basecamp_endpoint \in Methods \X MatchPaths
    /\ match_result = FALSE
    /\ phase = "input"
    /\ SegIdle
    /\ ExtractIdle
    /\ MainIdle

Match ==
    /\ phase = "input"
    /\ match_result' = endpoints_match(doc_endpoint, basecamp_endpoint)
    /\ phase' = "matched"
    /\ UNCHANGED <<doc_endpoint, basecamp_endpoint>>
    /\ UNCHANGED segVars
    /\ UNCHANGED extractVars
    /\ UNCHANGED mainVars

NextMatch == Match

SpecMatch == InitMatch /\ [][NextMatch]_vars

\* the segments of a path with no wildcard flag set: its literal segments
LiteralSegs(p) == segmentize(p, FALSE, FALSE)

\* position i of the two normalized paths is compatible
Compatible(D, C, i) == D[i] = Star \/ C[i] = Star \/ D[i] = C[i]

\* C1: endpoints_match is true exactly when the methods are equal, the two
\* normalized paths have the same number of segments, and every position has a
\* wildcard on either side or the same text
C1_MatchIff ==
    phase = "matched" =>
        LET D == segmentize(doc_endpoint[2], TRUE, TRUE)
            C == segmentize(basecamp_endpoint[2], TRUE, FALSE)
        IN  match_result =
                ( /\ doc_endpoint[1] = basecamp_endpoint[1]
                  /\ Len(D) = Len(C)
                  /\ \A i \in 1..Len(D) : Compatible(D, C, i) )

\* a match through a wildcard: same method, two segments, different paths
C1_Witness ==
    /\ phase = "matched"
    /\ match_result = TRUE
    /\ doc_endpoint[2] # basecamp_endpoint[2]
    /\ Len(LiteralSegs(doc_endpoint[2])) = 2
    /\ \E i \in 1..2 : segmentize(doc_endpoint[2], TRUE, TRUE)[i] = Star

\* C3 as stated: a documented all-digit segment against a different client
\* literal at the same position makes the match false
C3_DocDigitNoWildcard ==
    phase = "matched" =>
        LET D == LiteralSegs(doc_endpoint[2])
            C == segmentize(basecamp_endpoint[2], TRUE, FALSE)
        IN  ( /\ doc_endpoint[1] = basecamp_endpoint[1]
              /\ Len(D) = Len(C)
              /\ \E i \in 1..Len(D) :
                    IsDigit(D[i]) /\ C[i] # Star /\ C[i] # D[i] )
            => match_result = FALSE

GetA7 == <<"GET", <<"/", "a", "/", "7">>>>
GetAId == <<"GET", <<"/", "a", "/", ":", "i", "d">>>>

\* C3 amended: numeric segments are wildcards on the documentation side only.
\* A client all-digit segment against a documented segment that is not a
\* wildcard makes the match false; a documented all-digit segment is
\* compatible with any client segment; doc GET /a/:id matches client GET /a/7
C3_ClientDigitNoWildcard ==
    phase = "matched" =>
        LET Draw == LiteralSegs(doc_endpoint[2])
            D == segmentize(doc_endpoint[2], TRUE, TRUE)
            Craw == LiteralSegs(basecamp_endpoint[2])
            C == segmentize(basecamp_endpoint[2], TRUE, FALSE)
            same == /\ doc_endpoint[1] = basecamp_endpoint[1]
                    /\ Len(D) = Len(Craw)
        IN  /\ ( /\ same
                 /\ \E i \in 1..Len(D) : IsDigit(Craw[i]) /\ D[i] # Star )
               => match_result = FALSE
            /\ ( /\ same
                 /\ \A i \in 1..Len(D) : IsDigit(Draw[i]) \/ Compatible(D, C, i) )
               => match_result = TRUE
            /\ (doc_endpoint = GetAId /\ basecamp_endpoint = GetA7)
               => match_result = TRUE

\* doc GET /x/a against client GET /7/a has been matched (and is false)
C3_Witness ==
    /\ phase = "matched"
    /\ match_result = FALSE
    /\ doc_endpoint = <<"GET", <<"/", "x", "/", "a">>>>
    /\ basecamp_endpoint = <<"GET", <<"/", "7", "/", "a">>>>

(***************************************************************************)
(* load_basecamp_endpoints.  A script is the sequence of its lines; a line *)
(* is given by the shape the three regular expressions see in it:          *)
(*   kind "assign": [local] name=<quote>value<quote>        (ASSIGN_RE)    *)
(*   kind "call":   api_<verb> <quote>value<quote>, quote "" when the      *)
(*                  argument is not quoted  (API_CALL_STR_RE, _VAR_RE)     *)
(*   kind "other":  a line none of the three matches                      *)
(***************************************************************************)
AssignLine(name, quote, value) ==
    [kind |-> "assign", verb |-> "", name |-> name, quote |-> quote, value |-> value]
CallLine(verb, quote, value) ==
    [kind |-> "call", verb |-> verb, name |-> <<>>, quote |-> quote, value |-> value]

Lower == {"a", "b", "c", "d", "e", "f", "g", "h", "i", "j", "k", "l", "m",
          "n", "o", "p", "q", "r", "s", "t", "u", "v", "w", "x", "y", "z"}
Upper == {"A", "B", "C", "D", "E", "F", "G", "H", "I", "J", "K", "L", "M",
          "N", "O", "P", "Q", "R", "S", "T", "U", "V", "W", "X", "Y", "Z"}
\* [A-Za-z_] and [A-Za-z0-9_]
IdentStart == Lower \cup Upper \cup {"_"}
IdentChar == IdentStart \cup Digits

\* the longest prefix of s matching [A-Za-z0-9_]*
RECURSIVE IdentRun(_)
IdentRun(s) ==
    IF s # <<>> /\ Head(s) \in IdentChar THEN <<Head(s)>> \o IdentRun(Tail(s))
    ELSE <<>>

\* group 2 of API_CALL_VAR_RE at the start of the argument s:
\* \$[A-Za-z_][A-Za-z0-9_]* or \$\{[A-Za-z_][A-Za-z0-9_]*\}; <<>> when neither
VarToken(s) ==
    IF Len(s) >= 2 /\ s[1] = "$" /\ s[2] \in IdentStart
    THEN <<"$">> \o IdentRun(Tail(s))
    ELSE IF Len(s) >= 4 /\ s[1] = "$" /\ s[2] = "{" /\ s[3] \in IdentStart
         THEN LET run == IdentRun(SubSeq(s, 3, Len(s)))
                  close == 3 + Len(run)
              IN  IF close <= Len(s) /\ s[close] = "}"
                  THEN SubSeq(s, 1, close)
                  ELSE <<>>
         ELSE <<>>

\* re.fullmatch(r"\$\{?[A-Za-z_][A-Za-z0-9_]*\}?", s)
BareVariable(s) ==
    /\ s # <<>>
    /\ Head(s) = "$"
    /\ LET r == Tail(s)
           body == IF r # <<>> /\ Head(r) = "{" THEN Tail(r) ELSE r
           rest == SubSeq(body, Len(IdentRun(body)) + 1, Len(body))
       IN  /\ body # <<>>
           /\ Head(body) \in IdentStart
           /\ rest \in {<<>>, <<"}">>}

\* match.group(1).upper(), then "UPLOAD" becomes "POST"
VerbUpper ==
    [ v \in {"get", "post", "put", "patch", "delete", "upload"} |->
        CASE v = "get" -> "GET"
          [] v = "post" -> "POST"
          [] v = "put" -> "PUT"
          [] v = "patch" -> "PATCH"
          [] v = "delete" -> "DELETE"
          [] v = "upload" -> "UPLOAD" ]

MethodOfVerb(verb) ==
    LET method == VerbUpper[verb]
    IN  IF method = "UPLOAD" THEN "POST" ELSE method

\* assignments.setdefault(var_name, set()).add(value)
AddAssignment(table, var_name, value) ==
    IF var_name \in DOMAIN table
    THEN [table EXCEPT ![var_name] = @ \cup {value}]
    ELSE table @@ (var_name :> {value})

\* assignments.get(var_name, set())
GetAssignment(table, var_name) ==
    IF var_name \in DOMAIN table THEN table[var_name] ELSE {}

\* the first loop: the assignment table of one script
RECURSIVE AssignLoop(_, _)
AssignLoop(lines, table) ==
    IF lines = <<>> THEN table
    ELSE LET line == Head(lines)
         IN  IF line.kind # "assign" THEN AssignLoop(Tail(lines), table)
             ELSE IF ~StartsWith(line.value, <<"/">>)
                  THEN AssignLoop(Tail(lines), table)
                  ELSE AssignLoop(Tail(lines),
                                  AddAssignment(table, line.name, line.value))

\* API_CALL_STR_RE finds the line: a call with a quoted, non-empty argument
StrCallMatches(line) ==
    /\ line.kind = "call"
    /\ line.quote \in {"\"", "'"}
    /\ line.value # <<>>
    /\ ~Contains(line.value, line.quote)

\* the second loop: the calls on a quoted literal
RECURSIVE StrCallLoop(_, _)
StrCallLoop(lines, found) ==
    IF lines = <<>> THEN found
    ELSE LET line == Head(lines)
         IN  IF ~StrCallMatches(line) THEN StrCallLoop(Tail(lines), found)
             ELSE IF BareVariable(line.value) THEN StrCallLoop(Tail(lines), found)
                  ELSE StrCallLoop(Tail(lines),
                           found \cup {<<MethodOfVerb(line.verb), line.value>>})

\* API_CALL_VAR_RE finds the line: a call whose argument, bare or after a
\* double quote, starts with a variable token
VarCallMatches(line) ==
    /\ line.kind = "call"
    /\ line.quote \in {"", "\""}
    /\ VarToken(line.value) # <<>>

\* var_token.strip("${}").lstrip("$")
VarName(var_token) == LStrip(Strip(var_token, {"$", "{", "}"}), {"$"})

\* the third loop: the calls on a variable, resolved through the table
RECURSIVE VarCallLoop(_, _, _)
VarCallLoop(lines, table, found) ==
    IF lines = <<>> THEN found
    ELSE LET line == Head(lines)
         IN  IF ~VarCallMatches(line) THEN VarCallLoop(Tail(lines), table, found)
             ELSE LET method == MethodOfVerb(line.verb)
                      var_name == VarName(VarToken(line.value))
                  IN  VarCallLoop(Tail(lines), table,
                          found \cup { <<method, p>> :
                                        p \in GetAssignment(table, var_name) })

\* the table a script's scan starts from, whatever the table before it held
NewTable_KeepPrevious(previous) == previous
NewTable(previous) == <<>>

\* the body of the loop over the scripts: the table of the script and the
\* endpoint set after it
ScanScript(text, previous, found) ==
    LET table == AssignLoop(text, NewTable(previous))
    IN  [ assignments |-> table,
          endpoints |-> VarCallLoop(text, table, StrCallLoop(text, found)) ]

\* load_basecamp_endpoints on the scripts in the order rglob yields them
RECURSIVE ScriptLoop(_, _, _)
ScriptLoop(scripts, previous, found) ==
    IF scripts = <<>> THEN found
    ELSE LET r == ScanScript(Head(scripts), previous, found)
         IN  ScriptLoop(Tail(scripts), r.assignments, r.endpoints)

load_basecamp_endpoints(scripts) == ScriptLoop(scripts, <<>>, {})

(***************************************************************************)
(* SpecExtract: the scripts are at most MaxLines lines of LinePool cut     *)
(* into MaxUnits scripts; rglob yields them in any order.                  *)
(***************************************************************************)
VarV == <<"v">>
VarW == <<"w">>
PathP == <<"/", "p">>
PathQ == <<"/", "q", "/", "$", "i", "d">>
PathR == <<"/", "r">>

LinePool ==
    { AssignLine(VarV, "\"", PathP),
      AssignLine(VarV, "'", PathQ),
      AssignLine(VarV, "\"", <<"p">>),
      AssignLine(VarW, "\"", PathP),
      CallLine("get", "\"", <<"$", "v">>),
      CallLine("upload", "", <<"$", "{", "v", "}">>),
      CallLine("post", "\"", PathR) }

\* the nondecreasing cut points of a sequence of n items into k pieces
Cuts(n, k) ==
    { c \in [0..k -> 0..n] :
        /\ c[0] = 0
        /\ c[k] = n
        /\ \A u \in 1..k : c[u - 1] <= c[u] }

CutInto(lines, c) == [ u \in 1..MaxUnits |-> SubSeq(lines, c[u - 1] + 1, c[u]) ]

InitExtract ==
    /\ \E lines \in SeqsUpTo(LinePool, MaxLines) :
         \E c \in Cuts(Len(lines), MaxUnits) : commands = CutInto(lines, c)
    /\ scanned = {}
    /\ assignments = <<>>
    /\ endpoints = {}
    /\ phase = "extract"
    /\ SegIdle
    /\ MatchIdle
    /\ MainIdle

\* one iteration of the loop over commands_dir.rglob("*.sh")
ScanUnit(u) ==
    /\ u \notin scanned
    /\ LET r == ScanScript(commands[u], assignments, endpoints)
       IN  /\ assignments' = r.assignments
           /\ endpoints' = r.endpoints
    /\ scanned' = scanned \cup {u}
    /\ UNCHANGED <<commands, phase>>
    /\ UNCHANGED segVars
    /\ UNCHANGED matchVars
    /\ UNCHANGED mainVars

NextExtract == \E u \in DOMAIN commands : ScanUnit(u)

SpecExtract == InitExtract /\ [][NextExtract]_vars

\* the lines of a script, as a set
LinesOf(text) == { text[i] : i \in 1..Len(text) }

\* the method a verb-tagged call function stands for
VerbMethod(verb) ==
    CASE verb = "get" -> "GET"
      [] verb = "post" -> "POST"
      [] verb = "put" -> "PUT"
      [] verb = "patch" -> "PATCH"
      [] verb = "delete" -> "DELETE"
      [] verb = "upload" -> "POST"

\* the variable a call line refers to: its argument is $name or ${name}
RefersTo(line, name) ==
    /\ line.kind = "call"
    /\ line.quote # "'"
    /\ line.value \in { <<"$">> \o name, <<"$", "{">> \o name \o <<"}">> }

\* what the variable-mediated calls of one script are to contribute: one
\* endpoint per call and per "/"-prefixed literal assigned to its variable on
\* any line of the same script
VarContribution(text) ==
    { <<VerbMethod(call.verb), a.value>> :
        <<call, a>> \in { pr \in LinesOf(text) \X LinesOf(text) :
                            /\ pr[2].kind = "assign"
                            /\ pr[2].value # <<>>
                            /\ pr[2].value[1] = "/"
                            /\ RefersTo(pr[1], pr[2].name) } }

\* what the calls on a literal path of one script contribute
LiteralContribution(text) ==
    { <<VerbMethod(call.verb), call.value>> :
        call \in { l \in LinesOf(text) :
                     /\ l.kind = "call"
                     /\ l.quote # ""
                     /\ l.value # <<>>
                     /\ l.value[1] # "$" } }

\* C4: the client endpoint set is, at every point of the scan, the union over
\* the scanned scripts of each script's own contribution: a variable call
\* resolves to exactly the "/"-prefixed literals assigned to that variable in
\* the same script, before or after the call, and to nothing from another one
C4_PerUnitTable ==
    phase = "extract" =>
        endpoints = UNION { VarContribution(commands[u]) \cup LiteralContribution(commands[u]) :
                            u \in scanned }

\* a script calls $v before assigning it, another calls ${v} without assigning
\* it: only the first call contributes
C4_Witness ==
    /\ phase = "extract"
    /\ scanned = DOMAIN commands
    /\ \E u, w \in scanned :
         /\ u # w
         /\ commands[u] = << CallLine("get", "\"", <<"$", "v">>),
                             AssignLine(VarV, "\"", PathP) >>
         /\ commands[w] = << CallLine("upload", "", <<"$", "{", "v", "}">>) >>
    /\ endpoints = { <<"GET", PathP>> }

(***************************************************************************)
(* load_doc_endpoints.  A documentation file is the sequence of the        *)
(* matches DOC_ENDPOINT_RE finds in it: the method keyword and the path    *)
(* token as written.  md_files maps each *.md file name to that sequence.  *)
(***************************************************************************)
Mention(keyword, token) == [keyword |-> keyword, path |-> token]

\* match.group(1).upper() on the keywords the files write
KeywordUpper ==
    [ k \in {"GET", "get", "Get", "POST", "post", "Post"} |->
        IF k \in {"GET", "get", "Get"} THEN "GET" ELSE "POST" ]

\* the file names in sorted order, and sorted() of a set of them
NameOrder == <<"chatbots.md", "client_replies.md", "people.md", "projects.md">>
SortNames(S) == SelectSeq(NameOrder, LAMBDA n : n \in S)

SKIP_SECTIONS ==
    {"chatbots.md", "client_approvals.md", "client_correspondences.md",
     "client_replies.md"}

\* the elements of a sequence
Range(q) == { q[i] : i \in 1..Len(q) }

\* the backquote character, which a TLA+ string cannot hold
Backtick == "backquote"

\* the loop over DOC_ENDPOINT_RE.finditer(text)
RECURSIVE MentionLoop(_, _, _)
MentionLoop(mentions, seen, found) ==
    IF mentions = <<>> THEN found
    ELSE LET method == KeywordUpper[Head(mentions).keyword]
             token == RStrip(Head(mentions).path, {Backtick, ",", "."})
             key == <<method, token>>
         IN  IF key \in seen THEN MentionLoop(Tail(mentions), seen, found)
             ELSE MentionLoop(Tail(mentions), seen \cup {key}, Append(found, key))

\* "if endpoints:", with and without the test
KeepSection_Always(found) == TRUE
KeepSection(found) == found # <<>>

\* the loop over sorted(sections_dir.glob("*.md")); a section is <<name, endpoints>>
RECURSIVE FileLoop(_, _, _)
FileLoop(names, md, sections) ==
    IF names = <<>> THEN sections
    ELSE LET found == MentionLoop(md[Head(names)], {}, <<>>)
         IN  FileLoop(Tail(names), md,
                      IF KeepSection(found)
                      THEN Append(sections, <<Head(names), found>>)
                      ELSE sections)

load_doc_endpoints(md) == FileLoop(SortNames(DOMAIN md), md, <<>>)

(***************************************************************************)
(* main, statement by statement.                                           *)
(***************************************************************************)
\* "if not sections_dir.exists()", and the test inverted
SectionsMissing_Inverted(dir_exists) == dir_exists
SectionsMissing(dir_exists) == ~dir_exists

\* skipped_sections
SkippedOf(sections) == SelectSeq(sections, LAMBDA sec : sec[1] \in SKIP_SECTIONS)

\* doc_sections after the skip list is applied, and with the filter left out
ScoredOf_Unfiltered(sections, skipped) == sections
ScoredOf(sections, skipped) ==
    IF skipped # <<>>
    THEN SelectSeq(sections, LAMBDA sec : sec[1] \notin SKIP_SECTIONS)
    ELSE sections

\* "if endpoint in doc_seen", and the test always false
AlreadySeen_Never(endpoint, doc_seen) == FALSE
AlreadySeen(endpoint, doc_seen) == endpoint \in doc_seen

\* the inner loop of the unique_docs loop; acc is [seen, unique]
RECURSIVE UniqueEndpointLoop(_, _)
UniqueEndpointLoop(found, acc) ==
    IF found = <<>> THEN acc
    ELSE IF AlreadySeen(Head(found), acc.seen)
         THEN UniqueEndpointLoop(Tail(found), acc)
         ELSE UniqueEndpointLoop(Tail(found),
                  [seen |-> acc.seen \cup {Head(found)},
                   unique |-> Append(acc.unique, Head(found))])

RECURSIVE UniqueSectionLoop(_, _)
UniqueSectionLoop(sections, acc) ==
    IF sections = <<>> THEN acc
    ELSE UniqueSectionLoop(Tail(sections),
                           UniqueEndpointLoop(Head(sections)[2], acc))

UniqueDocsOf(sections) ==
    UniqueSectionLoop(sections, [seen |-> {}, unique |-> <<>>]).unique

\* any(endpoints_match(endpoint, basecamp_ep) for basecamp_ep in ...), and all()
Covered_ByAll(endpoint, client) == \A basecamp_ep \in client : endpoints_match(endpoint, basecamp_ep)
Covered(endpoint, client) == \E basecamp_ep \in client : endpoints_match(endpoint, basecamp_ep)

\* f"{endpoint[0]} {endpoint[1]}"
MissingItem(endpoint) == <<endpoint[1], " ", endpoint[2]>>

\* the loop over one section's endpoints; acc is [matched, missing]
RECURSIVE EndpointLoop(_, _, _)
EndpointLoop(found, client, acc) ==
    IF found = <<>> THEN acc
    ELSE IF Covered(Head(found), client)
         THEN EndpointLoop(Tail(found), client,
                           [acc EXCEPT !.matched = @ + 1])
         ELSE EndpointLoop(Tail(found), client,
                           [acc EXCEPT !.missing = Append(@, MissingItem(Head(found)))])

\* the loop over doc_sections.items(); acc is [stats, missing]
RECURSIVE SectionLoop(_, _, _)
SectionLoop(sections, client, acc) ==
    IF sections = <<>> THEN acc
    ELSE LET section_name == Head(sections)[1]
             found == Head(sections)[2]
             r == EndpointLoop(found, client, [matched |-> 0, missing |-> <<>>])
         IN  SectionLoop(Tail(sections), client,
                 [stats |-> acc.stats @@ (section_name :> <<r.matched, Len(found)>>),
                  missing |-> IF r.missing # <<>>
                              THEN acc.missing @@ (section_name :> r.missing)
                              ELSE acc.missing])

SectionResults(sections, client) ==
    SectionLoop(sections, client, [stats |-> <<>>, missing |-> <<>>])

\* the loop over unique_docs
RECURSIVE MatchedLoop(_, _, _)
MatchedLoop(unique, client, count) ==
    IF unique = <<>> THEN count
    ELSE MatchedLoop(Tail(unique), client,
                     IF Covered(Head(unique), client) THEN count + 1 ELSE count)

\* f"{pct:.1f}" of matched / total * 100, in tenths of a percent, rounded to
\* the nearest tenth (to the even one on a tie); 0.0 when total is 0
Pct10(m, t) ==
    IF t = 0 THEN 0
    ELSE LET q == (1000 * m) \div t
             r == (1000 * m) % t
         IN  IF 2 * r > t THEN q + 1
             ELSE IF 2 * r < t THEN q
                  ELSE IF q % 2 = 0 THEN q ELSE q + 1

\* a printed line
Line(tag, a, b, c, text) == [tag |-> tag, a |-> a, b |-> b, c |-> c, text |-> text]

\* full, partial and zero
FullOf(stats) == SortNames({ sec \in DOMAIN stats : stats[sec][1] = stats[sec][2] })
PartialOf(stats) ==
    SortNames({ sec \in DOMAIN stats : 0 < stats[sec][1] /\ stats[sec][1] < stats[sec][2] })
ZeroOf(stats) == SortNames({ sec \in DOMAIN stats : stats[sec][1] = 0 })

\* the lines of one missing list
RECURSIVE ItemLines(_)
ItemLines(items) ==
    IF items = <<>> THEN <<>>
    ELSE <<Line("item", 0, 0, 0, Head(items))>> \o ItemLines(Tail(items))

\* the loop over partial + zero under --show-missing
RECURSIVE MissingLines(_, _)
MissingLines(names, missing) ==
    IF names = <<>> THEN <<>>
    ELSE LET items == IF Head(names) \in DOMAIN missing
                      THEN missing[Head(names)] ELSE <<>>
         IN  IF items = <<>> THEN MissingLines(Tail(names), missing)
             ELSE <<Line("section", 0, 0, 0, <<Head(names)>>)>>
                  \o ItemLines(items) \o MissingLines(Tail(names), missing)

\* sum(len(endpoints) for endpoints in skipped_sections.values())
RECURSIVE SumLens(_)
SumLens(sections) ==
    IF sections = <<>> THEN 0 ELSE Len(Head(sections)[2]) + SumLens(Tail(sections))

\* everything main prints
ReportLines(m, t, skipped, stats, missing, show) ==
    <<Line("overall", m, t, Pct10(m, t), <<>>)>>
    \o ( IF skipped # <<>>
         THEN <<Line("skipped sections", Len(skipped), SumLens(skipped), 0, <<>>)>>
         ELSE <<>> )
    \o << Line("full", Len(FullOf(stats)), 0, 0, <<>>),
          Line("partial", Len(PartialOf(stats)), 0, 0, <<>>),
          Line("zero", Len(ZeroOf(stats)), 0, 0, <<>>) >>
    \o ( IF show THEN MissingLines(PartialOf(stats) \o ZeroOf(stats), missing)
         ELSE <<>> )

(***************************************************************************)
(* SpecMain: runs of main.  The documentation directory, when it exists,   *)
(* holds the four files of NameOrder with at most MaxMentions endpoint     *)
(* mentions of DocPool between them; lib/commands holds scripts of         *)
(* ScriptPool.  Between two runs a script may be added to lib/commands.    *)
(***************************************************************************)
DocPool ==
    { Mention("GET", <<"/", "p", ".", "j", "s", "o", "n">>),
      Mention("get", <<"/", "p", ".", "j", "s", "o", "n", ",">>),
      Mention("POST", <<"/", "p", "/", "7", ".", "j", "s", "o", "n", ".">>) }

ScriptPool ==
    << << AssignLine(<<"u">>, "\"", <<"/", "p">>),
          CallLine("get", "\"", <<"$", "u">>) >>,
       << CallLine("post", "'",
                   <<"/", "p", "/", "$", "i", "d", ".", "j", "s", "o", "n">>) >> >>

\* the scripts of S in the order rglob yields them
ScriptsIn(S) == SelectSeq(ScriptPool, LAMBDA text : text \in S)

\* the documentation files holding the mentions ms cut at c
FilesOf(ms, c) ==
    [ n \in Range(NameOrder) |->
        LET u == CHOOSE i \in 1..Len(NameOrder) : NameOrder[i] = n
        IN  SubSeq(ms, c[u - 1] + 1, c[u]) ]

InitMain ==
    /\ sections_exists \in BOOLEAN
    /\ IF sections_exists
       THEN \E ms \in SeqsUpTo(DocPool, MaxMentions) :
              \E c \in Cuts(Len(ms), Len(NameOrder)) : md_files = FilesOf(ms, c)
       ELSE md_files = <<>>
    /\ \E S \in SUBSET Range(ScriptPool) : commands = ScriptsIn(S)
    /\ show_missing = FALSE
    /\ LocalsUnset
    /\ OutputUnset
    /\ prev = NoResults
    /\ phase = "start"
    /\ scanned = {}
    /\ assignments = <<>>
    /\ endpoints = {}
    /\ SegIdle
    /\ MatchIdle

otherVars == <<segVars, matchVars, scanned, assignments, endpoints>>

\* args = parse_args(), and the three paths
ParseArgs ==
    /\ phase = "start"
    /\ show_missing' \in BOOLEAN
    /\ phase' = "args"
    /\ UNCHANGED <<fsVars, commands, localVars, outVars, calls, prev, otherVars>>

\* the sections directory does not exist: the error, and return 1
FailNoSections ==
    /\ phase = "args"
    /\ SectionsMissing(sections_exists)
    /\ stderr' = <<Line("error: sections dir not found", 0, 0, 0, <<>>)>>
    /\ rc' = 1
    /\ phase' = "exit"
    /\ UNCHANGED <<fsVars, commands, show_missing, localVars, stdout, calls, prev,
                   otherVars>>

\* doc_sections = load_doc_endpoints(sections_dir), and the skip list
LoadDocs ==
    /\ phase = "args"
    /\ ~SectionsMissing(sections_exists)
    /\ LET loaded == load_doc_endpoints(md_files)
           skipped == SkippedOf(loaded)
       IN  /\ skipped_sections' = skipped
           /\ doc_sections' = ScoredOf(loaded, skipped)
    /\ calls' = calls \cup {"load_doc_endpoints"}
    /\ phase' = "docs"
    /\ UNCHANGED <<fsVars, commands, show_missing, basecamp_endpoints, unique_docs,
                   section_stats, section_missing, matched, total, full, partial,
                   zero, outVars, prev, otherVars>>

\* basecamp_endpoints = load_basecamp_endpoints(...)
LoadClients ==
    /\ phase = "docs"
    /\ basecamp_endpoints' = load_basecamp_endpoints(commands)
    /\ calls' = calls \cup {"load_basecamp_endpoints"}
    /\ phase' = "clients"
    /\ UNCHANGED <<fsVars, commands, show_missing, doc_sections, skipped_sections,
                   unique_docs, section_stats, section_missing, matched, total,
                   full, partial, zero, outVars, prev, otherVars>>

\* the unique_docs loop
UniqueDocs ==
    /\ phase = "clients"
    /\ unique_docs' = UniqueDocsOf(doc_sections)
    /\ phase' = "unique"
    /\ UNCHANGED <<fsVars, commands, show_missing, doc_sections, skipped_sections,
                   basecamp_endpoints, section_stats, section_missing, matched,
                   total, full, partial, zero, outVars, calls, prev, otherVars>>

\* the loop over the sections
SectionStats ==
    /\ phase = "unique"
    /\ LET r == SectionResults(doc_sections, basecamp_endpoints)
       IN  /\ section_stats' = r.stats
           /\ section_missing' = r.missing
    /\ phase' = "sections"
    /\ UNCHANGED <<fsVars, commands, show_missing, doc_sections, skipped_sections,
                   basecamp_endpoints, unique_docs, matched, total, full,
                   partial, zero, outVars, calls, prev, otherVars>>

\* the loop over unique_docs, and total
OverallCount ==
    /\ phase = "sections"
    /\ matched' = MatchedLoop(unique_docs, basecamp_endpoints, 0)
    /\ total' = Len(unique_docs)
    /\ phase' = "counted"
    /\ UNCHANGED <<fsVars, commands, show_missing, doc_sections, skipped_sections,
                   basecamp_endpoints, unique_docs, section_stats,
                   section_missing, full, partial, zero, outVars, calls, prev,
                   otherVars>>

\* the report
Report ==
    /\ phase = "counted"
    /\ full' = FullOf(section_stats)
    /\ partial' = PartialOf(section_stats)
    /\ zero' = ZeroOf(section_stats)
    /\ stdout' = ReportLines(matched, total, skipped_sections, section_stats,
                             section_missing, show_missing)
    /\ phase' = "reported"
    /\ UNCHANGED <<fsVars, commands, show_missing, doc_sections, skipped_sections,
                   basecamp_endpoints, unique_docs, section_stats,
                   section_missing, matched, total, stderr, rc, calls, prev,
                   otherVars>>

\* return 0
Return0 ==
    /\ phase = "reported"
    /\ rc' = 0
    /\ phase' = "exit"
    /\ UNCHANGED <<fsVars, commands, show_missing, localVars, stdout, stderr,
                   calls, prev, otherVars>>

\* between two runs, a script is added to lib/commands
AddScript ==
    /\ phase = "exit"
    /\ \E text \in Range(ScriptPool) \ Range(commands) :
         commands' = ScriptsIn(Range(commands) \cup {text})
    /\ UNCHANGED <<fsVars, show_missing, localVars, outVars, calls, prev, phase,
                   otherVars>>

\* the next run starts; prev keeps what the run before it found
Rerun ==
    /\ phase = "exit"
    /\ prev' = IF rc = 0
               THEN [valid |-> TRUE, matched |-> matched, total |-> total,
                     section_stats |-> section_stats,
                     section_missing |-> section_missing]
               ELSE NoResults
    /\ show_missing' = FALSE
    /\ doc_sections' = <<>>
    /\ skipped_sections' = <<>>
    /\ basecamp_endpoints' = {}
    /\ unique_docs' = <<>>
    /\ section_stats' = <<>>
    /\ section_missing' = <<>>
    /\ matched' = 0
    /\ total' = 0
    /\ full' = <<>>
    /\ partial' = <<>>
    /\ zero' = <<>>
    /\ stdout' = <<>>
    /\ stderr' = <<>>
    /\ rc' = -1
    /\ calls' = {}
    /\ phase' = "start"
    /\ UNCHANGED <<fsVars, commands, otherVars>>

NextMain ==
    \/ ParseArgs
    \/ FailNoSections
    \/ LoadDocs
    \/ LoadClients
    \/ UniqueDocs
    \/ SectionStats
    \/ OverallCount
    \/ Report
    \/ Return0
    \/ AddScript
    \/ Rerun

SpecMain == InitMain /\ [][NextMain]_vars

(***************************************************************************)
(* The claims about main.                                                  *)
(***************************************************************************)
\* main has computed its counts
Counted == phase \in {"counted", "reported"} \/ (phase = "exit" /\ rc = 0)

\* C2: with the documentation fixed, a run over a superset of the scripts of
\* the run before it finds no overall or per-section matched count smaller,
\* and reports no endpoint missing that was matched before
C2_Monotone ==
    (Counted /\ prev.valid) =>
        /\ matched >= prev.matched
        /\ DOMAIN section_stats = DOMAIN prev.section_stats
        /\ \A sec \in DOMAIN section_stats :
             section_stats[sec][1] >= prev.section_stats[sec][1]
        /\ \A sec \in DOMAIN section_missing :
             /\ sec \in DOMAIN prev.section_missing
             /\ Range(section_missing[sec]) \subseteq Range(prev.section_missing[sec])

\* a script added between two runs raised the matched count
C2_Witness ==
    /\ phase = "exit"
    /\ rc = 0
    /\ prev.valid
    /\ matched > prev.matched
    /\ \E sec \in DOMAIN section_stats :
         section_stats[sec][1] > prev.section_stats[sec][1]

\* the sum of the per-section matched counts
RECURSIVE SumMatched(_, _)
SumMatched(names, stats) ==
    IF names = {} THEN 0
    ELSE LET n == CHOOSE x \in names : TRUE
         IN  stats[n][1] + SumMatched(names \ {n}, stats)

\* the distinct endpoints of the scored sections
ScoredEndpoints == UNION { Range(sec[2]) : sec \in Range(doc_sections) }

\* C5: total is the number of distinct endpoints over the scored sections and
\* matched the number of those some client endpoint matches, each counted
\* once, while every section counts each of its endpoints
C5_GlobalDedup ==
    Counted =>
        /\ total = Cardinality(ScoredEndpoints)
        /\ matched = Cardinality({ e \in ScoredEndpoints :
                         \E b \in basecamp_endpoints : endpoints_match(e, b) })
        /\ matched <= total
        /\ matched <= SumMatched(DOMAIN section_stats, section_stats)
        /\ \A sec \in Range(doc_sections) :
             /\ section_stats[sec[1]][2] = Cardinality(Range(sec[2]))
             /\ section_stats[sec[1]][1] =
                   Cardinality({ e \in Range(sec[2]) :
                       \E b \in basecamp_endpoints : endpoints_match(e, b) })

\* one matched endpoint documented in two scored sections
C5_Witness ==
    /\ phase = "reported"
    /\ Len(doc_sections) = 2
    /\ total = 1
    /\ matched = 1
    /\ SumMatched(DOMAIN section_stats, section_stats) = 2

\* main from the documentation files md and the scripts, in one step
RunResults(md, scripts, show) ==
    LET loaded == load_doc_endpoints(md)
        skipped == SkippedOf(loaded)
        scored == ScoredOf(loaded, skipped)
        client == load_basecamp_endpoints(scripts)
        unique == UniqueDocsOf(scored)
        r == SectionResults(scored, client)
        m == MatchedLoop(unique, client, 0)
        t == Len(unique)
    IN  [ matched |-> m, total |-> t,
          section_stats |-> r.stats, section_missing |-> r.missing,
          full |-> FullOf(r.stats), partial |-> PartialOf(r.stats),
          zero |-> ZeroOf(r.stats),
          stdout |-> ReportLines(m, t, skipped, r.stats, r.missing, show) ]

\* the documentation files without, and of, the skip list
FilesWithoutSkipped == [ n \in DOMAIN md_files \ SKIP_SECTIONS |-> md_files[n] ]
FilesSkipped == [ n \in DOMAIN md_files \cap SKIP_SECTIONS |-> md_files[n] ]

SkippedLines == SelectSeq(stdout, LAMBDA l : l.tag = "skipped sections")
OtherLines == SelectSeq(stdout, LAMBDA l : l.tag # "skipped sections")

\* C6: the counts, the classes, the missing lists and every printed line but
\* the skipped-sections line are those of a run on the documentation without
\* the files of the skip list; the skipped-sections line gives the number of
\* skipped sections and of their endpoints
C6_SkipFrame ==
    phase = "reported" =>
        LET R == RunResults(FilesWithoutSkipped, commands, show_missing)
            S == load_doc_endpoints(FilesSkipped)
        IN  /\ matched = R.matched
            /\ total = R.total
            /\ section_stats = R.section_stats
            /\ section_missing = R.section_missing
            /\ full = R.full
            /\ partial = R.partial
            /\ zero = R.zero
            /\ OtherLines = R.stdout
            /\ IF S = <<>> THEN SkippedLines = <<>>
               ELSE SkippedLines =
                      <<Line("skipped sections", Len(S), SumLens(S), 0, <<>>)>>

\* two sections are skipped; one documents an endpoint no scored section
\* documents, and no script covers it
C6_Witness ==
    /\ phase = "reported"
    /\ show_missing
    /\ Len(skipped_sections) = 2
    /\ doc_sections # <<>>
    /\ \E e \in Range(skipped_sections[1][2]) :
         /\ e \notin ScoredEndpoints
         /\ ~\E b \in basecamp_endpoints : endpoints_match(e, b)
    /\ SkippedLines # <<>>

InSeq(x, q) == \E i \in 1..Len(q) : q[i] = x

\* C7: every scored section is in exactly one of full, partial and zero, by
\* its stat; the three counts sum to the number of scored sections; a missing
\* list is printed only for a partial or zero section
C7_Classes ==
    (phase = "reported" \/ (phase = "exit" /\ rc = 0)) =>
        /\ \A sec \in DOMAIN section_stats :
             LET m == section_stats[sec][1]
                 t == section_stats[sec][2]
             IN  /\ InSeq(sec, full) <=> (m = t /\ t > 0)
                 /\ InSeq(sec, zero) <=> (m = 0)
                 /\ InSeq(sec, partial) <=> ~(m = t /\ t > 0) /\ ~(m = 0)
                 /\ ~(InSeq(sec, full) /\ InSeq(sec, zero))
                 /\ ~(InSeq(sec, full) /\ InSeq(sec, partial))
                 /\ ~(InSeq(sec, partial) /\ InSeq(sec, zero))
        /\ Len(full) + Len(partial) + Len(zero) = Len(doc_sections)
        /\ Cardinality(DOMAIN section_stats) = Len(doc_sections)
        /\ \E i \in 1..Len(stdout) :
             /\ stdout[i] = Line("full", Len(full), 0, 0, <<>>)
             /\ stdout[i + 1] = Line("partial", Len(partial), 0, 0, <<>>)
             /\ stdout[i + 2] = Line("zero", Len(zero), 0, 0, <<>>)
        /\ \A i \in 1..Len(stdout) :
             stdout[i].tag = "section" =>
                /\ show_missing
                /\ InSeq(stdout[i].text[1], partial) \/ InSeq(stdout[i].text[1], zero)

\* a partial section with its missing list printed, beside a file that
\* documents nothing and is no section
C7_Witness ==
    /\ phase = "reported"
    /\ partial # <<>>
    /\ \E i \in 1..Len(stdout) :
         stdout[i].tag = "section" /\ InSeq(stdout[i].text[1], partial)
    /\ \E n \in DOMAIN md_files :
         /\ n \notin SKIP_SECTIONS
         /\ md_files[n] = <<>>
         /\ n \notin DOMAIN section_stats

====
